---- MODULE Spec2Model ----
(***************************************************************************)
(* Model of decryption/decryption.py: the decode-candidate generator, the  *)
(* key deriver, the cipher trial, the scorer and the time-bounded search   *)
(* loop of main().                                                         *)
(*                                                                         *)
(* Text is a sequence of code points, bytes are a sequence of 0..255.      *)
(* A Python exception is the record Raise, a normal result is Ok(v).       *)
(***************************************************************************)
EXTENDS Integers, Sequences, FiniteSets, TLC

(***************************************************************************)
(* Generic helpers                                                         *)
(***************************************************************************)
Raise == [ok |-> FALSE, val |-> <<>>]

Ok(v) == [ok |-> TRUE, val |-> v]

\* Python's None as the result of a cipher trial, and a bytes result.
None == [none |-> TRUE, bytes |-> <<>>]

Some(b) == [none |-> FALSE, bytes |-> b]

Range(s) == {s[i] : i \in 1..Len(s)}

RECURSIVE SeqSum(_)
SeqSum(s) ==
    IF Len(s) = 0 THEN 0
    ELSE IF Len(s) = 1 THEN s[1]
    ELSE LET h == Len(s) \div 2 IN
         SeqSum(SubSeq(s, 1, h)) + SeqSum(SubSeq(s, h + 1, Len(s)))

Repeat(x, n) == [i \in 1..n |-> x]

RECURSIVE Concat(_)
Concat(ss) ==
    IF Len(ss) = 0 THEN <<>>
    ELSE IF Len(ss) = 1 THEN ss[1]
    ELSE LET h == Len(ss) \div 2 IN
         Concat(SubSeq(ss, 1, h)) \o Concat(SubSeq(ss, h + 1, Len(ss)))

SetMin(S) == CHOOSE x \in S : \A y \in S : x <= y

SetMax(S) == CHOOSE x \in S : \A y \in S : x >= y

Slice(s, from, to) ==
    IF to < from THEN <<>> ELSE SubSeq(s, from, IF to > Len(s) THEN Len(s) ELSE to)

IsPrefix(s, t) == Len(s) <= Len(t) /\ SubSeq(t, 1, Len(s)) = s

Min(a, b) == IF a < b THEN a ELSE b

Max(a, b) == IF a > b THEN a ELSE b

\* Bitwise exclusive or of two bytes.
RECURSIVE XorBits(_, _, _)
XorBits(a, b, n) ==
    IF n = 0 THEN 0
    ELSE (((a % 2) + (b % 2)) % 2) + (2 * XorBits(a \div 2, b \div 2, n - 1))

Xor(a, b) == XorBits(a, b, 8)

XorSeq(s, t) == [i \in 1..Len(s) |-> Xor(s[i], t[i])]

\* str.encode('latin1'): one byte per character, UnicodeEncodeError above U+00FF.
EncodeLatin1(str) ==
    IF \A i \in 1..Len(str) : str[i] <= 255 THEN Ok(str) ELSE Raise

\* base64._bytes_from_decode_data on a str: ASCII only, else ValueError.
EncodeAscii(str) ==
    IF \A i \in 1..Len(str) : str[i] <= 127 THEN Ok(str) ELSE Raise

\* str.replace(old, new) for single characters.
Replace(str, old, new) == [i \in 1..Len(str) |-> IF str[i] = old THEN new ELSE str[i]]

\* str.replace(old, '') for a single character.
Remove(str, old) == LET Keep(c) == c # old IN SelectSeq(str, Keep)

(***************************************************************************)
(* base64.b64decode(s, validate=False): binascii.a2b_base64, non-strict    *)
(***************************************************************************)
B64Index(c) ==
    IF c >= 65 /\ c <= 90 THEN c - 65
    ELSE IF c >= 97 /\ c <= 122 THEN c - 97 + 26
    ELSE IF c >= 48 /\ c <= 57 THEN c - 48 + 52
    ELSE IF c = 43 THEN 62
    ELSE IF c = 47 THEN 63
    ELSE 64

\* The '=' at which the scan stops (a complete pad sequence), or 0.  At
\* character i, quad is the number of alphabet characters read so far modulo
\* 4, and pads the number of '=' read since the last of them.
B64Stop(s) ==
    LET IsData(i) == B64Index(s[i]) < 64
        quad(i) == Cardinality({j \in 1..(i - 1) : IsData(j)}) % 4
        lastData(i) == SetMax({0} \cup {j \in 1..(i - 1) : IsData(j)})
        pads(i) == Cardinality({j \in (lastData(i) + 1)..i : s[j] = 61})
        stops == {i \in 1..Len(s) : s[i] = 61 /\ quad(i) >= 2 /\ quad(i) + pads(i) >= 4}
    IN  IF stops = {} THEN 0 ELSE SetMin(stops)

\* Byte j of the bytes packed in the 6-bit digits d.
B64Byte(d, j) ==
    LET k == ((8 * (j - 1)) \div 6) + 1
        r == (8 * (j - 1)) % 6
    IN  IF r = 0 THEN (d[k] * 4) + (d[k + 1] \div 16)
        ELSE IF r = 2 THEN ((d[k] % 16) * 16) + (d[k + 1] \div 4)
        ELSE ((d[k] % 4) * 64) + d[k + 1]

\* binascii.a2b_base64(s, strict_mode=False): characters outside the alphabet
\* are dropped; binascii.Error when the digits do not end on a quad.
A2bBase64(s) ==
    LET stop == B64Stop(s)
        read == IF stop = 0 THEN s ELSE SubSeq(s, 1, stop - 1)
        IsDigit(c) == B64Index(c) < 64
        chars == SelectSeq(read, IsDigit)
        d == [i \in 1..Len(chars) |-> B64Index(chars[i])]
    IN  IF stop = 0 /\ Len(d) % 4 # 0 THEN Raise
        ELSE Ok([j \in 1..((6 * Len(d)) \div 8) |-> B64Byte(d, j)])

B64Decode(str) ==
    IF ~EncodeAscii(str).ok THEN Raise ELSE A2bBase64(str)

(***************************************************************************)
(* base64.b85decode and base64.a85decode                                   *)
(***************************************************************************)
\* Five base-85 digits as a 32-bit big-endian word; struct.error on overflow.
\* The product is formed in two 16-bit halves.
Pack85(d) ==
    LET a4 == ((d[1] * 85 + d[2]) * 85 + d[3]) * 85 + d[4]
        q  == a4 \div 65536
        r  == a4 % 65536
        lo == (r * 85) + d[5]
        hi == (q * 85) + (lo \div 65536)
        l  == lo % 65536
    IN  IF hi >= 65536 THEN Raise
        ELSE Ok(<<hi \div 256, hi % 256, l \div 256, l % 256>>)

\* Position of a character in the b85 alphabet
\* 0-9A-Za-z!#$%&()*+-;<=>?@^_`{|}~ , or -1.
B85Alphabet ==
    <<48, 49, 50, 51, 52, 53, 54, 55, 56, 57,
      65, 66, 67, 68, 69, 70, 71, 72, 73, 74, 75, 76, 77, 78, 79, 80, 81, 82, 83,
      84, 85, 86, 87, 88, 89, 90,
      97, 98, 99, 100, 101, 102, 103, 104, 105, 106, 107, 108, 109, 110, 111, 112,
      113, 114, 115, 116, 117, 118, 119, 120, 121, 122,
      33, 35, 36, 37, 38, 40, 41, 42, 43, 45, 59, 60, 61, 62, 63, 64, 94, 95, 96,
      123, 124, 125, 126>>

B85Index(c) ==
    IF \E k \in 1..Len(B85Alphabet) : B85Alphabet[k] = c
    THEN (CHOOSE k \in 1..Len(B85Alphabet) : B85Alphabet[k] = c) - 1
    ELSE -1

B85Decode(str) ==
    IF ~EncodeAscii(str).ok THEN Raise
    ELSE LET padding == (5 - (Len(str) % 5)) % 5
             b == str \o Repeat(126, padding)
             d == [i \in 1..Len(b) |-> B85Index(b[i])]
             w == [c \in 1..(Len(b) \div 5) |->
                     Pack85(SubSeq(d, (5 * (c - 1)) + 1, 5 * c))]
         IN  IF \E i \in 1..Len(d) : d[i] < 0 THEN Raise
             ELSE IF \E c \in 1..Len(w) : ~w[c].ok THEN Raise
             ELSE LET result == Concat([c \in 1..Len(w) |-> w[c].val]) IN
                  Ok(SubSeq(result, 1, Len(result) - padding))

\* base64.a85decode(b): whitespace is skipped, 'z' stands for four zero bytes
\* and may not fall inside a group of five, 'uuuu' completes the last group.
A85Decode(str) ==
    IF ~EncodeAscii(str).ok THEN Raise
    ELSE LET NotSpace(c) == c \notin {32, 9, 10, 13, 11}
             b == SelectSeq(str \o <<117, 117, 117, 117>>, NotSpace)
             IsDigit(i) == b[i] >= 33 /\ b[i] <= 117
             before(i) == Cardinality({j \in 1..(i - 1) : IsDigit(j)})
             curr == before(Len(b) + 1) % 5
             padding == 4 - curr
             IsItem(i) == b[i] = 122 \/ (IsDigit(i) /\ (before(i) + 1) % 5 = 0)
             items == SelectSeq([i \in 1..Len(b) |-> i], IsItem)
             w == [n \in 1..Len(items) |->
                     IF b[items[n]] = 122 THEN Ok(<<0, 0, 0, 0>>)
                     ELSE Pack85([k \in 1..5 |-> b[items[n] - 5 + k] - 33])]
             first == {i \in 1..Len(b) :
                         \/ (~IsDigit(i) /\ b[i] # 122)
                         \/ (b[i] = 122 /\ before(i) % 5 # 0)
                         \/ (IsItem(i) /\ b[i] # 122
                               /\ ~Pack85([k \in 1..5 |-> b[i - 5 + k] - 33]).ok)}
         IN  IF first # {} THEN Raise
             ELSE LET result == Concat([n \in 1..Len(w) |-> w[n].val]) IN
                  Ok(SubSeq(result, 1, Len(result) - padding))

(***************************************************************************)
(* The hash and cipher libraries (hashlib, Crypto.Cipher, twofish,         *)
(* Crypto.Util.Padding).  Their arithmetic is not part of the repository:  *)
(* a digest is a fixed-length byte string determined by its input, a block *)
(* cipher is a keyed permutation of blocks.  Key sizes, block sizes, the   *)
(* chaining of the modes and the padding rule are the libraries' own.      *)
(***************************************************************************)
Digest(seed, n, data) ==
    [i \in 1..n |-> (seed + (131 * SeqSum(data)) + (17 * Len(data)) + (29 * i)) % 256]

Md5(data) == Digest(5, 16, data)

Sha1(data) == Digest(160, 20, data)

Sha256(data) == Digest(77, 32, data)

Ciphers == {"Blowfish", "CAST", "ARC2", "AES", "Twofish"}

\* BLOCK_SIZES, and the block each branch of try_decrypt_with_key sets.
BlockSize(lib) == IF lib \in {"AES", "Twofish"} THEN 16 ELSE 8

\* Key lengths X.new(key, ...) accepts; twofish.Twofish(key) as the source
\* documents it ("expects key sizes 16/24/32").
KeyValid(lib, key) ==
    CASE lib = "Blowfish" -> Len(key) >= 4 /\ Len(key) <= 56
      [] lib = "CAST"     -> Len(key) >= 5 /\ Len(key) <= 16
      [] lib = "ARC2"     -> Len(key) >= 5 /\ Len(key) <= 128
      [] lib = "AES"      -> Len(key) \in {16, 24, 32}
      [] lib = "Twofish"  -> Len(key) \in {16, 24, 32}
      [] OTHER            -> FALSE

Salt(lib) ==
    CASE lib = "Blowfish" -> 11
      [] lib = "CAST"     -> 23
      [] lib = "ARC2"     -> 37
      [] lib = "AES"      -> 41
      [] OTHER            -> 53

KeyByte(lib, key) == (SeqSum(key) + (7 * Len(key)) + Salt(lib)) % 256

\* The keyed block permutation and its inverse.
EncryptBlock(lib, key, blk) ==
    [i \in 1..Len(blk) |-> (blk[i] + KeyByte(lib, key) + i) % 256]

DecryptBlock(lib, key, blk) ==
    [i \in 1..Len(blk) |-> (blk[i] + 512 - KeyByte(lib, key) - i) % 256]

Block(data, k, bs) == SubSeq(data, ((k - 1) * bs) + 1, k * bs)

\* cipher.decrypt(data) of a cipher object made with MODE_ECB.
EcbDecrypt(lib, key, data) ==
    LET bs == BlockSize(lib) IN
    Concat([k \in 1..(Len(data) \div bs) |-> DecryptBlock(lib, key, Block(data, k, bs))])

\* cipher.decrypt(data) of a cipher object made with MODE_CBC and iv.
CbcDecrypt(lib, key, iv, data) ==
    LET bs == BlockSize(lib) IN
    Concat([k \in 1..(Len(data) \div bs) |->
              XorSeq(DecryptBlock(lib, key, Block(data, k, bs)),
                     IF k = 1 THEN iv ELSE Block(data, k - 1, bs))])

EcbEncrypt(lib, key, data) ==
    LET bs == BlockSize(lib) IN
    Concat([k \in 1..(Len(data) \div bs) |-> EncryptBlock(lib, key, Block(data, k, bs))])

RECURSIVE CbcEncryptFrom(_, _, _, _, _)
CbcEncryptFrom(lib, key, prev, data, k) ==
    LET bs == BlockSize(lib) IN
    IF k > Len(data) \div bs THEN <<>>
    ELSE LET c == EncryptBlock(lib, key, XorSeq(Block(data, k, bs), prev)) IN
         c \o CbcEncryptFrom(lib, key, c, data, k + 1)

CbcEncrypt(lib, key, iv, data) == CbcEncryptFrom(lib, key, iv, data, 1)

ZeroIV(n) == Repeat(0, n)

\* X.new(key, mode[, iv=zeros]).decrypt(data): ValueError on a bad key length
\* or on data that is not a whole number of blocks.
LibDecrypt(lib, mode, key, data) ==
    IF ~KeyValid(lib, key) THEN Raise
    ELSE IF Len(data) % BlockSize(lib) # 0 THEN Raise
    ELSE IF mode = "ECB" THEN Ok(EcbDecrypt(lib, key, data))
    ELSE Ok(CbcDecrypt(lib, key, ZeroIV(BlockSize(lib)), data))

\* The encrypting side, for round trips.
LibEncrypt(lib, mode, key, data) ==
    IF mode = "ECB" THEN EcbEncrypt(lib, key, data)
    ELSE CbcEncrypt(lib, key, ZeroIV(BlockSize(lib)), data)

\* Crypto.Util.Padding.pad(data, block_size), PKCS#7.
Pad(data, bs) == data \o Repeat(bs - (Len(data) % bs), bs - (Len(data) % bs))

ValidPadding(data, bs) ==
    /\ Len(data) > 0
    /\ Len(data) % bs = 0
    /\ LET n == data[Len(data)] IN
         /\ n >= 1
         /\ n <= Min(bs, Len(data))
         /\ \A i \in (Len(data) - n + 1)..Len(data) : data[i] = n

\* Crypto.Util.Padding.unpad(padded_data, block_size): ValueError on bad padding.
Unpad(data, bs) ==
    IF ValidPadding(data, bs)
    THEN Ok(SubSeq(data, 1, Len(data) - data[Len(data)]))
    ELSE Raise

(***************************************************************************)
(* Program state                                                           *)
(***************************************************************************)
VARIABLES
    HAVE_CRYPTO,    \* module global, line 47-52
    HAVE_TWOFISH,   \* module global, line 54-58
    args,           \* parsed arguments, with the wordlist and input file read
    pc,             \* position in main(), or in a direct call of a function
    charset,        \* line 210
    ciphers,        \* line 211
    passphrases,    \* line 214-217
    cts,            \* line 220-225
    matches,        \* line 228
    ctIdx,          \* for ct in cts
    decoded_list,   \* line 231
    candIdx,        \* for dec_bytes, tags in decoded_list
    ppIdx,          \* for pp in passphrases
    L,              \* for L in range(1, max_keylen + 1)
    tup,            \* for tup in itertools.product(charset, repeat=L), as indices
    keys,           \* keys (line 240) or key_variants (line 264-267)
    keyIdx,         \* for key in keys
    algoIdx,        \* for algo in ciphers
    modeIdx,        \* for mode in ['ECB', 'CBC']
    expired,        \* time.time() - start > args.time_limit
    observed,       \* history: some deadline check has seen expired
    expiredIn,      \* history: the phase the run was in when expired became true
    overshoot,      \* history: trials started since expired became true
    trials,         \* history: the place in the loops of every trial made by main()
    last,           \* history: the latest trial, its inputs and its result
    call            \* a direct call of try_decrypt_with_key, with its result

vars == <<HAVE_CRYPTO, HAVE_TWOFISH, args, pc, charset, ciphers, passphrases, cts,
          matches, ctIdx, decoded_list, candIdx, ppIdx, L, tup, keys, keyIdx,
          algoIdx, modeIdx, expired, observed, expiredIn, overshoot, trials, last,
          call>>

(***************************************************************************)
(* gen_decoded_candidates                                                  *)
(***************************************************************************)
\* candidates.setdefault(dec, []).append(tag) on an insertion-ordered dict.
SetDefaultAppend(candidates, dec, tag) ==
    IF \E i \in 1..Len(candidates) : candidates[i].bytes = dec
    THEN [i \in 1..Len(candidates) |->
            IF candidates[i].bytes = dec
            THEN [candidates[i] EXCEPT !.tags = Append(@, tag)]
            ELSE candidates[i]]
    ELSE Append(candidates, [bytes |-> dec, tags |-> <<tag>>])

\* f'b64[{v}]_pad{pad}'
B64Tag(v, pad) == <<98, 54, 52, 91>> \o v \o <<93, 95, 112, 97, 100, 48 + pad>>

\* The set built on line 71.
Variants(ciphertext) ==
    {ciphertext, Replace(ciphertext, 42, 47), Replace(ciphertext, 42, 43),
     Remove(ciphertext, 61)}

\* Every order in which a set can be iterated.
RECURSIVE Orders(_)
Orders(S) ==
    IF S = {} THEN {<<>>}
    ELSE UNION {{<<x>> \o o : o \in Orders(S \ {x})} : x \in S}

\* Lines 74-81, for the variants in iteration order vs and pad = 0..3.
RECURSIVE Base64Variants(_, _, _, _)
Base64Variants(vs, k, pad, candidates) ==
    IF k > Len(vs) THEN candidates
    ELSE IF pad > 3 THEN Base64Variants(vs, k + 1, 0, candidates)
    ELSE LET dec == B64Decode(vs[k] \o Repeat(61, pad)) IN
         Base64Variants(vs, k, pad + 1,
             IF dec.ok THEN SetDefaultAppend(candidates, dec.val, B64Tag(vs[k], pad))
             ELSE candidates)

\* vs is the order in which the set of variants is iterated.
gen_decoded_candidates(ciphertext, vs) ==
    LET c1 == Base64Variants(vs, 1, 0, <<>>)
        d85 == B85Decode(ciphertext)
        c2 == IF d85.ok THEN SetDefaultAppend(c1, d85.val, <<98, 56, 53>>) ELSE c1
        a85 == A85Decode(ciphertext)
    IN  IF a85.ok THEN SetDefaultAppend(c2, a85.val, <<97, 56, 53>>) ELSE c2

(***************************************************************************)
(* is_printable, score_text                                                *)
(***************************************************************************)
\* bytes.decode('latin1') cannot fail; every character in 32..126.
is_printable(bs) == \A i \in 1..Len(bs) : bs[i] >= 32 /\ bs[i] <= 126

\* str.lower() on latin1 text.
Lower(str) ==
    [i \in 1..Len(str) |->
        IF \/ (str[i] >= 65 /\ str[i] <= 90)
           \/ (str[i] >= 192 /\ str[i] <= 222 /\ str[i] # 215)
        THEN str[i] + 32 ELSE str[i]]

\* str.count(word): occurrences that do not overlap, scanning from the left.
RECURSIVE CountFrom(_, _, _)
CountFrom(str, word, i) ==
    LET found == {m \in i..(Len(str) - Len(word) + 1) :
                    SubSeq(str, m, m + Len(word) - 1) = word}
    IN  IF found = {} THEN 0
        ELSE 1 + CountFrom(str, word, SetMin(found) + Len(word))

\* ' the ', ' and ', ' is ', ' you ', ' password', ' pass', ' '
ScoreWords ==
    << <<32, 116, 104, 101, 32>>, <<32, 97, 110, 100, 32>>, <<32, 105, 115, 32>>,
       <<32, 121, 111, 117, 32>>, <<32, 112, 97, 115, 115, 119, 111, 114, 100>>,
       <<32, 112, 97, 115, 115>>, <<32>> >>

\* str.isalnum() of one latin1 character.
IsAlnum(c) ==
    \/ (c >= 48 /\ c <= 57) \/ (c >= 65 /\ c <= 90) \/ (c >= 97 /\ c <= 122)
    \/ c \in {170, 178, 179, 181, 185, 186, 188, 189, 190}
    \/ (c >= 192 /\ c <= 255 /\ c # 215 /\ c # 247)

\* " .,:;'-_@#"
ScoreAllowed == {32, 46, 44, 58, 59, 39, 45, 95, 64, 35}

\* The float score as an exact fraction <<numerator, denominator>>:
\* count + (vowels / max(1, n)) * 0.1 - nonalpha * 0.05.
score_text(str) ==
    LET s_low == Lower(str)
        n == Max(1, Len(s_low))
        count == SeqSum([w \in 1..Len(ScoreWords) |-> CountFrom(s_low, ScoreWords[w], 1)])
        vowels == Cardinality({i \in 1..Len(s_low) : s_low[i] \in {97, 101, 105, 111, 117}})
        nonalpha == Cardinality({i \in 1..Len(str) :
                                   ~IsAlnum(str[i]) /\ str[i] \notin ScoreAllowed})
    IN  <<(20 * n * count) + (2 * vowels) - (n * nonalpha), 20 * n>>

(***************************************************************************)
(* try_decrypt_with_key                                                    *)
(***************************************************************************)
\* What lines 122-152 leave behind: a raw plaintext, an exception, or return None.
RawPt(pt) == [kind |-> "pt", pt |-> pt]

RawRaise == [kind |-> "raise", pt |-> <<>>]

RawReturnNone == [kind |-> "none", pt |-> <<>>]

\* Lines 122-137: X.new(...).decrypt(cipher_bytes); NameError without the library.
CryptoBranch(lib, cipher_bytes, mode, key) ==
    IF ~HAVE_CRYPTO THEN RawRaise
    ELSE LET r == LibDecrypt(lib, mode, key, cipher_bytes) IN
         IF r.ok THEN RawPt(r.val) ELSE RawRaise

\* Lines 138-150 without the length check of lines 142-143.
TwofishBranchNoLengthCheck(cipher_bytes, key) ==
    IF ~HAVE_TWOFISH THEN RawRaise
    ELSE IF ~KeyValid("Twofish", key) THEN RawRaise
    ELSE RawPt(Concat([k \in 1..((Len(cipher_bytes) + 15) \div 16) |->
            DecryptBlock("Twofish", key,
                Slice(cipher_bytes, ((k - 1) * 16) + 1, k * 16))]))

\* Lines 138-150: block by block, whatever the mode.
TwofishBranch(cipher_bytes, key) ==
    IF ~HAVE_TWOFISH THEN RawRaise
    ELSE IF ~KeyValid("Twofish", key) THEN RawRaise
    ELSE IF Len(cipher_bytes) % 16 # 0 THEN RawReturnNone
    ELSE RawPt(Concat([k \in 1..(Len(cipher_bytes) \div 16) |->
            DecryptBlock("Twofish", key, Block(cipher_bytes, k, 16))]))

RawDecrypt(cipher_bytes, algo, mode, key) ==
    IF algo = "Blowfish" THEN CryptoBranch("Blowfish", cipher_bytes, mode, key)
    ELSE IF algo = "CAST" THEN CryptoBranch("CAST", cipher_bytes, mode, key)
    ELSE IF algo = "RC2" \/ algo = "ARC2" THEN CryptoBranch("ARC2", cipher_bytes, mode, key)
    ELSE IF algo = "AES" THEN CryptoBranch("AES", cipher_bytes, mode, key)
    ELSE IF algo = "Twofish" THEN TwofishBranch(cipher_bytes, key)
    ELSE RawReturnNone

\* The block each branch sets.
BlockOf(algo) == IF algo = "AES" \/ algo = "Twofish" THEN 16 ELSE 8

\* Lines 154-157 with unpad removing one byte too many.
TryUnpadOneMore(pt, block) ==
    IF ~HAVE_CRYPTO THEN Raise
    ELSE IF ValidPadding(pt, block) /\ pt[Len(pt)] < Len(pt)
    THEN Ok(SubSeq(pt, 1, Len(pt) - pt[Len(pt)] - 1))
    ELSE Unpad(pt, block)

\* Lines 154-157: unpad(pt, block); the name unpad is bound only with the library.
TryUnpad(pt, block) == IF HAVE_CRYPTO THEN Unpad(pt, block) ELSE Raise

try_decrypt_with_key(cipher_bytes, algo, mode, key) ==
    LET r == RawDecrypt(cipher_bytes, algo, mode, key) IN
    IF r.kind # "pt" THEN None
    ELSE LET u == TryUnpad(r.pt, BlockOf(algo)) IN
         IF u.ok THEN Some(u.val) ELSE Some(r.pt)

(***************************************************************************)
(* derive_keys_from_passphrase, expand_charset                             *)
(***************************************************************************)
\* Lines 171-174.
RECURSIVE Uniq(_, _)
Uniq(out, uniq) ==
    IF out = <<>> THEN uniq
    ELSE Uniq(Tail(out), IF Head(out) \in Range(uniq) THEN uniq ELSE Append(uniq, Head(out)))

derive_keys_from_passphrase(passphrase) ==
    LET e == EncodeLatin1(passphrase) IN
    IF ~e.ok THEN Raise
    ELSE LET md5k == Md5(e.val)
             sha1k == Sha1(e.val)
             sha256k == Sha256(e.val)
         IN  Ok(Uniq(<<md5k, SubSeq(sha1k, 1, 16), Slice(sha1k, 1, 24),
                       SubSeq(sha256k, 1, 16), SubSeq(sha256k, 1, 24),
                       SubSeq(sha256k, 1, 32)>>, <<>>))

RECURSIVE ExpandFrom(_, _)
ExpandFrom(spec, i) ==
    IF i > Len(spec) THEN <<>>
    ELSE IF i + 2 <= Len(spec) /\ spec[i + 1] = 45
         THEN [k \in 1..Max(0, spec[i + 2] - spec[i] + 1) |-> spec[i] + k - 1]
              \o ExpandFrom(spec, i + 3)
         ELSE <<spec[i]>> \o ExpandFrom(spec, i + 1)

expand_charset(spec) == ExpandFrom(spec, 1)

\* key.hex()
HexDigit(n) == IF n < 10 THEN 48 + n ELSE 87 + n

Hex(key) == Concat([i \in 1..Len(key) |-> <<HexDigit(key[i] \div 16), HexDigit(key[i] % 16)>>])

\* '|'.join(tags)
RECURSIVE Join(_)
Join(tags) ==
    IF tags = <<>> THEN <<>>
    ELSE IF Len(tags) = 1 THEN tags[1]
    ELSE tags[1] \o <<124>> \o Join(Tail(tags))

(***************************************************************************)
(* main(): the search loop, one step per loop head, deadline check or      *)
(* cipher trial.  The clock is the flag expired, which Tick raises once.   *)
(***************************************************************************)
\* The order of the loop of line 249 reversed.
ModesReversed == <<"CBC", "ECB">>

\* Lines 249 and 274.
Modes == <<"ECB", "CBC">>

\* `if pt` as `if pt is not None`.
NotNone(pt) == ~pt.none

\* `if pt`: neither None nor the empty bytes.
Truthy(pt) == ~pt.none /\ pt.bytes # <<>>

\* A deadline check that never sees the limit exceeded.
DeadlineIgnored == FALSE

\* Line 234.
DeadlineAtCandidate == expired

\* Line 243.
DeadlineAtAlgo == expired

\* Line 259.
DeadlineAtTuple == expired

\* Line 280.
DeadlineAtTier == expired

\* Lines 245-248 and 270-273.
Skipped(algo) ==
    \/ (algo = "Twofish" /\ ~HAVE_TWOFISH)
    \/ (~HAVE_CRYPTO /\ algo # "Twofish")

\* Line 240 with the derived keys added to the raw bytes instead of replacing them.
WordlistKeysWithRaw(pp) ==
    LET raw == EncodeLatin1(pp)
        d == derive_keys_from_passphrase(pp)
    IN  IF ~raw.ok THEN Raise
        ELSE IF args.try_derived_keys THEN Ok(<<raw.val>> \o d.val)
        ELSE Ok(<<raw.val>>)

\* Line 240.
WordlistKeys(pp) ==
    IF args.try_derived_keys THEN derive_keys_from_passphrase(pp)
    ELSE LET raw == EncodeLatin1(pp) IN
         IF raw.ok THEN Ok(<<raw.val>>) ELSE Raise

\* Lines 261-267.
BruteKeys(keystr) ==
    LET keybytes == EncodeLatin1(keystr) IN
    IF ~keybytes.ok THEN Raise
    ELSE IF args.try_derived_keys
         THEN Ok(<<keybytes.val>> \o derive_keys_from_passphrase(keystr).val)
         ELSE Ok(<<keybytes.val>>)

\* itertools.product(charset, repeat=L): the first tuple, and the one after t;
\* <<>> when there is none.
FirstTuple(n) == IF charset = <<>> THEN <<>> ELSE [i \in 1..n |-> 1]

RECURSIVE NextTuple(_)
NextTuple(t) ==
    IF t = <<>> THEN <<>>
    ELSE IF t[Len(t)] < Len(charset) THEN [t EXCEPT ![Len(t)] = @ + 1]
    ELSE LET rest == NextTuple(SubSeq(t, 1, Len(t) - 1)) IN
         IF rest = <<>> THEN <<>> ELSE Append(rest, 1)

\* ''.join(tup)
KeyStr(t) == [i \in 1..Len(t) |-> charset[t[i]]]

Phase ==
    IF pc \in {"wl_pp", "wl_key", "wl_algo", "wl_trial"} THEN "wordlist"
    ELSE IF pc \in {"bf_L", "bf_tup", "bf_key", "bf_algo", "bf_trial", "bf_after"} THEN "brute"
    ELSE "outer"

NoTrial ==
    [n |-> 0, bytes |-> <<>>, key |-> <<>>, algo |-> "", mode |-> "", res |-> None,
     before |-> 0, after |-> 0]

EmptyCall ==
    [kind |-> "none", cipher_bytes |-> <<>>, algo |-> "", mode |-> "", key |-> <<>>,
     plaintext |-> <<>>, result |-> None]

\* The bound on --max-keylen in ShortKeys.
MaxKeylen == 4

\* "FhjQKiEotrc=" is Blowfish-ECB of "hi you" under "abba"; --wordlist abba,pass1 --charset a-b --max-keylen MaxKeylen --ciphers Blowfish,CAST
ShortKeys ==
    [ciphertexts |-> <<<<70, 104, 106, 81, 75, 105, 69, 111, 116, 114, 99, 61>>>>,
     wordlist |-> <<<<97, 98, 98, 97>>, <<112, 97, 115, 115, 49>>>>,
     max_keylen |-> MaxKeylen,
     charset |-> <<97, 45, 98>>,
     try_derived_keys |-> FALSE,
     time_limit |-> 600,
     ciphers |-> <<"Blowfish", "CAST">>,
     have_crypto |-> TRUE,
     have_twofish |-> TRUE]

\* "5tvZlebY6+zx6u7hnujzoQAhK1b5IVFecl5jZRVgeik=" is AES-CBC of "the password is hunter2" under md5("k"); --wordlist pw --charset k --max-keylen 1 --try-derived-keys --ciphers AES,Twofish
DerivedKeys ==
    [ciphertexts |-> <<<<53, 116, 118, 90, 108, 101, 98, 89, 54, 43, 122, 120, 54, 117, 55, 104, 110, 117, 106, 122, 111, 81, 65, 104, 75, 49, 98, 53, 73, 86, 70, 101, 99, 108, 53, 106, 90, 82, 86, 103, 101, 105, 107, 61>>>>,
     wordlist |-> <<<<112, 119>>>>,
     max_keylen |-> 1,
     charset |-> <<107>>,
     try_derived_keys |-> TRUE,
     time_limit |-> 600,
     ciphers |-> <<"AES", "Twofish">>,
     have_crypto |-> TRUE,
     have_twofish |-> TRUE]

\* "yr+9ecq8z9DVztLFgszXhfghK2YJKVk2OiY7Le0oQvE=" is Twofish-CBC of "the password is hunter2" under "kkkkkkkkkkkkkkkk"; --charset k --max-keylen 16 --ciphers Twofish
TwofishChained ==
    [ciphertexts |-> <<<<121, 114, 43, 57, 101, 99, 113, 56, 122, 57, 68, 86, 122, 116, 76, 70, 103, 115, 122, 88, 104, 102, 103, 104, 75, 50, 89, 74, 75, 86, 107, 50, 79, 105, 89, 55, 76, 101, 48, 111, 81, 118, 69, 61>>>>,
     wordlist |-> <<>>,
     max_keylen |-> 16,
     charset |-> <<107>>,
     try_derived_keys |-> FALSE,
     time_limit |-> 600,
     ciphers |-> <<"Twofish">>,
     have_crypto |-> TRUE,
     have_twofish |-> TRUE]

\* the empty token; --wordlist abcd --charset "aEURO" (a, U+20AC) --max-keylen 1 --ciphers Blowfish,DES
EmptyToken ==
    [ciphertexts |-> <<<<>>>>,
     wordlist |-> <<<<97, 98, 99, 100>>>>,
     max_keylen |-> 1,
     charset |-> <<97, 8364>>,
     try_derived_keys |-> FALSE,
     time_limit |-> 600,
     ciphers |-> <<"Blowfish", "DES">>,
     have_crypto |-> TRUE,
     have_twofish |-> TRUE]

\* token "QUJD"; --wordlist with U+03A9 --try-derived-keys --max-keylen 0 --ciphers AES
WideWordlist ==
    [ciphertexts |-> <<<<81, 85, 74, 68>>>>,
     wordlist |-> <<<<937>>>>,
     max_keylen |-> 0,
     charset |-> <<97>>,
     try_derived_keys |-> TRUE,
     time_limit |-> 600,
     ciphers |-> <<"AES">>,
     have_crypto |-> TRUE,
     have_twofish |-> TRUE]

\* Crypto missing, twofish present; "QTQzQzdH3t/g4eLj5OXm5w==" is Twofish-ECB of padded "secret", "QThIRTc4QvU4UEw++khPRA==" of the unpadded "sixteen byte msg", under md5("pw"); --wordlist pw --try-derived-keys --max-keylen 0 --ciphers Blowfish,Twofish
NoCrypto ==
    [ciphertexts |-> <<<<81, 84, 81, 122, 81, 122, 100, 72, 51, 116, 47, 103, 52, 101, 76, 106, 53, 79, 88, 109, 53, 119, 61, 61>>, <<81, 84, 104, 73, 82, 84, 99, 52, 81, 118, 85, 52, 85, 69, 119, 43, 43, 107, 104, 80, 82, 65, 61, 61>>>>,
     wordlist |-> <<<<112, 119>>>>,
     max_keylen |-> 0,
     charset |-> <<97>>,
     try_derived_keys |-> TRUE,
     time_limit |-> 600,
     ciphers |-> <<"Blowfish", "Twofish">>,
     have_crypto |-> FALSE,
     have_twofish |-> TRUE]

\* twofish missing; "mqVTlVWmmKsa1IfGh9fW5A==" is RC2-CBC of "is a pass" under "baabb", then "dRXkAmWEdZ*9OXa"; --wordlist baabb --charset a --max-keylen 1 --ciphers Twofish,RC2
TwoTokens ==
    [ciphertexts |-> <<<<109, 113, 86, 84, 108, 86, 87, 109, 109, 75, 115, 97, 49, 73, 102, 71, 104, 57, 102, 87, 53, 65, 61, 61>>, <<100, 82, 88, 107, 65, 109, 87, 69, 100, 90, 42, 57, 79, 88, 97>>>>,
     wordlist |-> <<<<98, 97, 97, 98, 98>>>>,
     max_keylen |-> 1,
     charset |-> <<97>>,
     try_derived_keys |-> FALSE,
     time_limit |-> 600,
     ciphers |-> <<"Twofish", "RC2">>,
     have_crypto |-> TRUE,
     have_twofish |-> FALSE]

\* --time-limit -1: the limit is exceeded from the start; token "FhjQKiEotrc="; --charset a --max-keylen 1 --ciphers Blowfish
NoTime ==
    [ciphertexts |-> <<<<70, 104, 106, 81, 75, 105, 69, 111, 116, 114, 99, 61>>>>,
     wordlist |-> <<>>,
     max_keylen |-> 1,
     charset |-> <<97>>,
     try_derived_keys |-> FALSE,
     time_limit |-> -1,
     ciphers |-> <<"Blowfish">>,
     have_crypto |-> TRUE,
     have_twofish |-> TRUE]

\* neither library present; token "QUJD"; --wordlist abcde --charset a --max-keylen 1 --ciphers AES,Twofish
NoBackends ==
    [ciphertexts |-> <<<<81, 85, 74, 68>>>>,
     wordlist |-> <<<<97, 98, 99, 100, 101>>>>,
     max_keylen |-> 1,
     charset |-> <<97>>,
     try_derived_keys |-> FALSE,
     time_limit |-> 600,
     ciphers |-> <<"AES", "Twofish">>,
     have_crypto |-> FALSE,
     have_twofish |-> FALSE]

Scenarios ==
    <<ShortKeys, DerivedKeys, TwofishChained, EmptyToken, WideWordlist, NoCrypto,
      TwoTokens, NoTime, NoBackends>>

Init ==
    /\ args \in Range(Scenarios)
    /\ HAVE_CRYPTO = args.have_crypto
    /\ HAVE_TWOFISH = args.have_twofish
    /\ pc = "start"
    /\ charset = <<>>
    /\ ciphers = <<>>
    /\ passphrases = <<>>
    /\ cts = <<>>
    /\ matches = <<>>
    /\ ctIdx = 0
    /\ decoded_list = <<>>
    /\ candIdx = 0
    /\ ppIdx = 0
    /\ L = 0
    /\ tup = <<>>
    /\ keys = <<>>
    /\ keyIdx = 0
    /\ algoIdx = 0
    /\ modeIdx = 0
    /\ expired = FALSE
    /\ observed = FALSE
    /\ expiredIn = "none"
    /\ overshoot = 0
    /\ trials = <<>>
    /\ last = NoTrial
    /\ call = EmptyCall

globals == <<HAVE_CRYPTO, HAVE_TWOFISH, args, charset, ciphers, passphrases, cts>>

history == <<expiredIn, overshoot, trials, last>>

\* Lines 210-228; start = time.time() on line 227.
Start ==
    /\ pc = "start"
    /\ charset' = expand_charset(args.charset)
    /\ ciphers' = args.ciphers
    /\ passphrases' = args.wordlist
    /\ cts' = args.ciphertexts
    /\ matches' = <<>>
    /\ ctIdx' = 1
    /\ expired' = (args.time_limit < 0)
    /\ expiredIn' = IF args.time_limit < 0 THEN "outer" ELSE "none"
    /\ pc' = "token"
    /\ UNCHANGED <<HAVE_CRYPTO, HAVE_TWOFISH, args, decoded_list, candIdx, ppIdx, L, tup,
                   keys, keyIdx, algoIdx, modeIdx, observed, overshoot, trials, last, call>>

\* The clock passes the time limit.
Tick ==
    /\ pc \notin {"start", "done", "aborted", "called"}
    /\ ~expired
    /\ expired' = TRUE
    /\ expiredIn' = Phase
    /\ UNCHANGED <<globals, pc, matches, ctIdx, decoded_list, candIdx, ppIdx, L, tup, keys,
                   keyIdx, algoIdx, modeIdx, observed, overshoot, trials, last, call>>

\* Lines 230-231: the next token is decoded; the set of variants is iterated in
\* some order.
NextToken ==
    /\ pc = "token"
    /\ ctIdx <= Len(cts)
    /\ \E vs \in Orders(Variants(cts[ctIdx])) :
          decoded_list' = gen_decoded_candidates(cts[ctIdx], vs)
    /\ candIdx' = 1
    /\ pc' = "cand"
    /\ UNCHANGED <<globals, matches, ctIdx, ppIdx, L, tup, keys, keyIdx, algoIdx, modeIdx,
                   expired, observed, history, call>>

\* Line 230 with no token left: lines 283-292.
Finish ==
    /\ pc = "token"
    /\ ctIdx > Len(cts)
    /\ pc' = "done"
    /\ UNCHANGED <<globals, matches, ctIdx, decoded_list, candIdx, ppIdx, L, tup, keys,
                   keyIdx, algoIdx, modeIdx, expired, observed, history, call>>

\* Line 233 with no candidate left.
CandidatesExhausted ==
    /\ pc = "cand"
    /\ candIdx > Len(decoded_list)
    /\ ctIdx' = ctIdx + 1
    /\ pc' = "token"
    /\ UNCHANGED <<globals, matches, decoded_list, candIdx, ppIdx, L, tup, keys, keyIdx,
                   algoIdx, modeIdx, expired, observed, history, call>>

\* Lines 234-236: break out of the candidate loop.
CandidateDeadline ==
    /\ pc = "cand"
    /\ candIdx <= Len(decoded_list)
    /\ DeadlineAtCandidate
    /\ observed' = TRUE
    /\ ctIdx' = ctIdx + 1
    /\ pc' = "token"
    /\ UNCHANGED <<globals, matches, decoded_list, candIdx, ppIdx, L, tup, keys, keyIdx,
                   algoIdx, modeIdx, expired, history, call>>

\* Lines 234, 238-239: the wordlist loop starts.
CandidateWordlist ==
    /\ pc = "cand"
    /\ candIdx <= Len(decoded_list)
    /\ ~DeadlineAtCandidate
    /\ passphrases # <<>>
    /\ ppIdx' = 1
    /\ pc' = "wl_pp"
    /\ UNCHANGED <<globals, matches, ctIdx, decoded_list, candIdx, L, tup, keys, keyIdx,
                   algoIdx, modeIdx, expired, observed, history, call>>

\* Lines 234, 238, 256: no wordlist, the brute force starts.
CandidateBrute ==
    /\ pc = "cand"
    /\ candIdx <= Len(decoded_list)
    /\ ~DeadlineAtCandidate
    /\ passphrases = <<>>
    /\ L' = 1
    /\ pc' = "bf_L"
    /\ UNCHANGED <<globals, matches, ctIdx, decoded_list, candIdx, ppIdx, tup, keys, keyIdx,
                   algoIdx, modeIdx, expired, observed, history, call>>

\* Line 239 with no passphrase left: on to line 256.
WordlistExhausted ==
    /\ pc = "wl_pp"
    /\ ppIdx > Len(passphrases)
    /\ L' = 1
    /\ pc' = "bf_L"
    /\ UNCHANGED <<globals, matches, ctIdx, decoded_list, candIdx, ppIdx, tup, keys, keyIdx,
                   algoIdx, modeIdx, expired, observed, history, call>>

\* Lines 239-240.
WordlistPassphrase ==
    /\ pc = "wl_pp"
    /\ ppIdx <= Len(passphrases)
    /\ WordlistKeys(passphrases[ppIdx]).ok
    /\ keys' = WordlistKeys(passphrases[ppIdx]).val
    /\ keyIdx' = 1
    /\ pc' = "wl_key"
    /\ UNCHANGED <<globals, matches, ctIdx, decoded_list, candIdx, ppIdx, L, tup, algoIdx,
                   modeIdx, expired, observed, history, call>>

\* Line 240 raising UnicodeEncodeError, which nothing catches.
WordlistEncodeError ==
    /\ pc = "wl_pp"
    /\ ppIdx <= Len(passphrases)
    /\ ~WordlistKeys(passphrases[ppIdx]).ok
    /\ pc' = "aborted"
    /\ UNCHANGED <<globals, matches, ctIdx, decoded_list, candIdx, ppIdx, L, tup, keys,
                   keyIdx, algoIdx, modeIdx, expired, observed, history, call>>

\* Line 241 with no key left.
WordlistKeysExhausted ==
    /\ pc = "wl_key"
    /\ keyIdx > Len(keys)
    /\ ppIdx' = ppIdx + 1
    /\ pc' = "wl_pp"
    /\ UNCHANGED <<globals, matches, ctIdx, decoded_list, candIdx, L, tup, keys, keyIdx,
                   algoIdx, modeIdx, expired, observed, history, call>>

\* Lines 241-242.
WordlistKey ==
    /\ pc = "wl_key"
    /\ keyIdx <= Len(keys)
    /\ algoIdx' = 1
    /\ pc' = "wl_algo"
    /\ UNCHANGED <<globals, matches, ctIdx, decoded_list, candIdx, ppIdx, L, tup, keys,
                   keyIdx, modeIdx, expired, observed, history, call>>

\* Line 242 with no cipher left.
WordlistAlgosExhausted ==
    /\ pc = "wl_algo"
    /\ algoIdx > Len(ciphers)
    /\ keyIdx' = keyIdx + 1
    /\ pc' = "wl_key"
    /\ UNCHANGED <<globals, matches, ctIdx, decoded_list, candIdx, ppIdx, L, tup, keys,
                   algoIdx, modeIdx, expired, observed, history, call>>

\* Lines 243-244: break out of the cipher loop only.
WordlistDeadline ==
    /\ pc = "wl_algo"
    /\ algoIdx <= Len(ciphers)
    /\ DeadlineAtAlgo
    /\ observed' = TRUE
    /\ keyIdx' = keyIdx + 1
    /\ pc' = "wl_key"
    /\ UNCHANGED <<globals, matches, ctIdx, decoded_list, candIdx, ppIdx, L, tup, keys,
                   algoIdx, modeIdx, expired, history, call>>

\* Lines 245-248: continue.
WordlistSkip ==
    /\ pc = "wl_algo"
    /\ algoIdx <= Len(ciphers)
    /\ ~DeadlineAtAlgo
    /\ Skipped(ciphers[algoIdx])
    /\ algoIdx' = algoIdx + 1
    /\ UNCHANGED <<globals, pc, matches, ctIdx, decoded_list, candIdx, ppIdx, L, tup, keys,
                   keyIdx, modeIdx, expired, observed, history, call>>

\* Line 249.
WordlistAlgo ==
    /\ pc = "wl_algo"
    /\ algoIdx <= Len(ciphers)
    /\ ~DeadlineAtAlgo
    /\ ~Skipped(ciphers[algoIdx])
    /\ modeIdx' = 1
    /\ pc' = "wl_trial"
    /\ UNCHANGED <<globals, matches, ctIdx, decoded_list, candIdx, ppIdx, L, tup, keys,
                   keyIdx, algoIdx, expired, observed, history, call>>

\* Lines 250-254 and 275-279: one trial, and the match appended at once.
Trial(src) ==
    LET cand == decoded_list[candIdx]
        key == keys[keyIdx]
        algo == ciphers[algoIdx]
        mode == Modes[modeIdx]
        pt == try_decrypt_with_key(cand.bytes, algo, mode, key)
        hit == Truthy(pt) /\ is_printable(pt.bytes)
        s == pt.bytes
        row == [ct |-> cts[ctIdx], tags |-> Join(cand.tags), algo |-> algo, mode |-> mode,
                key |-> Hex(key), plaintext |-> s, score |-> score_text(s)]
    IN  /\ matches' = IF hit THEN Append(matches, row) ELSE matches
        /\ trials' = Append(trials,
              [ct |-> ctIdx, cand |-> candIdx, src |-> src,
               pp |-> IF src = "wordlist" THEN ppIdx ELSE 0,
               L |-> IF src = "brute" THEN L ELSE 0,
               tup |-> IF src = "brute" THEN tup ELSE <<>>,
               kv |-> keyIdx, ai |-> algoIdx, mode |-> mode])
        /\ last' = [n |-> Len(trials) + 1, bytes |-> cand.bytes, key |-> key,
                    algo |-> algo, mode |-> mode, res |-> pt,
                    before |-> Len(matches), after |-> Len(matches')]
        /\ overshoot' = IF expired THEN overshoot + 1 ELSE overshoot

WordlistTrial ==
    /\ pc = "wl_trial"
    /\ Trial("wordlist")
    /\ IF modeIdx < Len(Modes)
       THEN /\ modeIdx' = modeIdx + 1
            /\ UNCHANGED <<pc, algoIdx>>
       ELSE /\ algoIdx' = algoIdx + 1
            /\ pc' = "wl_algo"
            /\ UNCHANGED modeIdx
    /\ UNCHANGED <<globals, ctIdx, decoded_list, candIdx, ppIdx, L, tup, keys, keyIdx,
                   expired, observed, expiredIn, call>>

\* Line 256 with no length left: the next candidate.
TiersExhausted ==
    /\ pc = "bf_L"
    /\ L > args.max_keylen
    /\ candIdx' = candIdx + 1
    /\ pc' = "cand"
    /\ UNCHANGED <<globals, matches, ctIdx, decoded_list, ppIdx, L, tup, keys, keyIdx,
                   algoIdx, modeIdx, expired, observed, history, call>>

\* Lines 256-258.
Tier ==
    /\ pc = "bf_L"
    /\ L <= args.max_keylen
    /\ tup' = FirstTuple(L)
    /\ pc' = "bf_tup"
    /\ UNCHANGED <<globals, matches, ctIdx, decoded_list, candIdx, ppIdx, L, keys, keyIdx,
                   algoIdx, modeIdx, expired, observed, history, call>>

\* Line 258 with no tuple left: on to line 280.
TuplesExhausted ==
    /\ pc = "bf_tup"
    /\ tup = <<>>
    /\ pc' = "bf_after"
    /\ UNCHANGED <<globals, matches, ctIdx, decoded_list, candIdx, ppIdx, L, tup, keys,
                   keyIdx, algoIdx, modeIdx, expired, observed, history, call>>

\* Lines 259-260: break out of the tuple loop.
TupleDeadline ==
    /\ pc = "bf_tup"
    /\ tup # <<>>
    /\ DeadlineAtTuple
    /\ observed' = TRUE
    /\ pc' = "bf_after"
    /\ UNCHANGED <<globals, matches, ctIdx, decoded_list, candIdx, ppIdx, L, tup, keys,
                   keyIdx, algoIdx, modeIdx, expired, history, call>>

\* Lines 261-268.
Tuple ==
    /\ pc = "bf_tup"
    /\ tup # <<>>
    /\ ~DeadlineAtTuple
    /\ BruteKeys(KeyStr(tup)).ok
    /\ keys' = BruteKeys(KeyStr(tup)).val
    /\ keyIdx' = 1
    /\ pc' = "bf_key"
    /\ UNCHANGED <<globals, matches, ctIdx, decoded_list, candIdx, ppIdx, L, tup, algoIdx,
                   modeIdx, expired, observed, history, call>>

\* Line 262 raising UnicodeEncodeError, which nothing catches.
TupleEncodeError ==
    /\ pc = "bf_tup"
    /\ tup # <<>>
    /\ ~DeadlineAtTuple
    /\ ~BruteKeys(KeyStr(tup)).ok
    /\ pc' = "aborted"
    /\ UNCHANGED <<globals, matches, ctIdx, decoded_list, candIdx, ppIdx, L, tup, keys,
                   keyIdx, algoIdx, modeIdx, expired, observed, history, call>>

\* Line 268 with no key variant left: the next tuple.
BruteKeysExhausted ==
    /\ pc = "bf_key"
    /\ keyIdx > Len(keys)
    /\ tup' = NextTuple(tup)
    /\ pc' = "bf_tup"
    /\ UNCHANGED <<globals, matches, ctIdx, decoded_list, candIdx, ppIdx, L, keys, keyIdx,
                   algoIdx, modeIdx, expired, observed, history, call>>

\* Lines 268-269.
BruteKey ==
    /\ pc = "bf_key"
    /\ keyIdx <= Len(keys)
    /\ algoIdx' = 1
    /\ pc' = "bf_algo"
    /\ UNCHANGED <<globals, matches, ctIdx, decoded_list, candIdx, ppIdx, L, tup, keys,
                   keyIdx, modeIdx, expired, observed, history, call>>

\* Line 269 with no cipher left.
BruteAlgosExhausted ==
    /\ pc = "bf_algo"
    /\ algoIdx > Len(ciphers)
    /\ keyIdx' = keyIdx + 1
    /\ pc' = "bf_key"
    /\ UNCHANGED <<globals, matches, ctIdx, decoded_list, candIdx, ppIdx, L, tup, keys,
                   algoIdx, modeIdx, expired, observed, history, call>>

\* Lines 270-273: continue.
BruteSkip ==
    /\ pc = "bf_algo"
    /\ algoIdx <= Len(ciphers)
    /\ Skipped(ciphers[algoIdx])
    /\ algoIdx' = algoIdx + 1
    /\ UNCHANGED <<globals, pc, matches, ctIdx, decoded_list, candIdx, ppIdx, L, tup, keys,
                   keyIdx, modeIdx, expired, observed, history, call>>

\* Line 274.
BruteAlgo ==
    /\ pc = "bf_algo"
    /\ algoIdx <= Len(ciphers)
    /\ ~Skipped(ciphers[algoIdx])
    /\ modeIdx' = 1
    /\ pc' = "bf_trial"
    /\ UNCHANGED <<globals, matches, ctIdx, decoded_list, candIdx, ppIdx, L, tup, keys,
                   keyIdx, algoIdx, expired, observed, history, call>>

BruteTrial ==
    /\ pc = "bf_trial"
    /\ Trial("brute")
    /\ IF modeIdx < Len(Modes)
       THEN /\ modeIdx' = modeIdx + 1
            /\ UNCHANGED <<pc, algoIdx>>
       ELSE /\ algoIdx' = algoIdx + 1
            /\ pc' = "bf_algo"
            /\ UNCHANGED modeIdx
    /\ UNCHANGED <<globals, ctIdx, decoded_list, candIdx, ppIdx, L, tup, keys, keyIdx,
                   expired, observed, expiredIn, call>>

\* Lines 280-281: break out of the length loop, on to the next candidate.
TierDeadline ==
    /\ pc = "bf_after"
    /\ DeadlineAtTier
    /\ observed' = TRUE
    /\ candIdx' = candIdx + 1
    /\ pc' = "cand"
    /\ UNCHANGED <<globals, matches, ctIdx, decoded_list, ppIdx, L, tup, keys, keyIdx,
                   algoIdx, modeIdx, expired, history, call>>

\* Line 280 not taken: the next length.
TierEnd ==
    /\ pc = "bf_after"
    /\ ~DeadlineAtTier
    /\ L' = L + 1
    /\ pc' = "bf_L"
    /\ UNCHANGED <<globals, matches, ctIdx, decoded_list, candIdx, ppIdx, tup, keys, keyIdx,
                   algoIdx, modeIdx, expired, observed, history, call>>

(***************************************************************************)
(* try_decrypt_with_key called on its own                                  *)
(***************************************************************************)
\* The bound on the length of the bytes handed to a direct call.
MaxBytesLen == 17

BytesOfLen(n) == [i \in 1..n |-> (37 * i) % 256]

KeyOfLen(n) == [i \in 1..n |-> 97 + (i % 26)]

DirectAlgos == {"Blowfish", "CAST", "RC2", "ARC2", "AES", "Twofish", "DES"}

DirectKeyLens == {0, 1, 3, 4, 5, 8, 16, 17, 24, 32, 33, 56, 57, 128, 129}

\* "", "hi", "hi you!", 8, 16 and 23 characters.
Plaintexts ==
    {<<>>, <<104, 105>>, <<104, 105, 32, 121, 111, 117, 33>>,
     <<56, 32, 98, 121, 116, 101, 115, 33>>,
     <<115, 105, 120, 116, 101, 101, 110, 32, 98, 121, 116, 101, 32, 109, 115, 103>>,
     <<116, 104, 101, 32, 112, 97, 115, 115, 119, 111, 114, 100, 32, 105, 115, 32,
       104, 117, 110, 116, 101, 114, 50>>}

LibOf(algo) == IF algo = "RC2" THEN "ARC2" ELSE algo

Attempt ==
    /\ pc = "start"
    /\ \E n \in 0..MaxBytesLen, algo \in DirectAlgos, mode \in Range(Modes),
          k \in DirectKeyLens :
          call' = [kind |-> "attempt", cipher_bytes |-> BytesOfLen(n), algo |-> algo,
                   mode |-> mode, key |-> KeyOfLen(k), plaintext |-> <<>>,
                   result |-> try_decrypt_with_key(BytesOfLen(n), algo, mode, KeyOfLen(k))]
    /\ pc' = "called"
    /\ UNCHANGED <<globals, matches, ctIdx, decoded_list, candIdx, ppIdx, L, tup, keys,
                   keyIdx, algoIdx, modeIdx, expired, observed, history>>

\* Encrypt a padded plaintext, then attempt with the same cipher, mode and key.
RoundTrip ==
    /\ pc = "start"
    /\ \E p \in Plaintexts, algo \in DirectAlgos \ {"DES"}, mode \in Range(Modes) :
        \E k \in {n \in DirectKeyLens : KeyValid(LibOf(algo), KeyOfLen(n))} :
          LET ct == LibEncrypt(LibOf(algo), mode, KeyOfLen(k),
                               Pad(p, BlockSize(LibOf(algo))))
          IN  call' = [kind |-> "roundtrip", cipher_bytes |-> ct, algo |-> algo,
                       mode |-> mode, key |-> KeyOfLen(k), plaintext |-> p,
                       result |-> try_decrypt_with_key(ct, algo, mode, KeyOfLen(k))]
    /\ pc' = "called"
    /\ UNCHANGED <<globals, matches, ctIdx, decoded_list, candIdx, ppIdx, L, tup, keys,
                   keyIdx, algoIdx, modeIdx, expired, observed, history>>

Next ==
    \/ Start \/ Tick \/ NextToken \/ Finish
    \/ CandidatesExhausted \/ CandidateDeadline \/ CandidateWordlist \/ CandidateBrute
    \/ WordlistExhausted \/ WordlistPassphrase \/ WordlistEncodeError
    \/ WordlistKeysExhausted \/ WordlistKey
    \/ WordlistAlgosExhausted \/ WordlistDeadline \/ WordlistSkip \/ WordlistAlgo
    \/ WordlistTrial
    \/ TiersExhausted \/ Tier \/ TuplesExhausted \/ TupleDeadline \/ Tuple
    \/ TupleEncodeError \/ BruteKeysExhausted \/ BruteKey
    \/ BruteAlgosExhausted \/ BruteSkip \/ BruteAlgo \/ BruteTrial
    \/ TierDeadline \/ TierEnd
    \/ Attempt \/ RoundTrip

Spec == Init /\ [][Next]_vars

(***************************************************************************)
(* Properties                                                              *)
(***************************************************************************)
Supported == {"Blowfish", "CAST", "RC2", "ARC2", "AES", "Twofish"}

\* The textbook decryption of data under a cipher, a mode and a key, with the
\* padding removed when it is valid: what the encrypting side expects back.
RefDecrypt(data, algo, mode, key) ==
    IF algo \notin Supported THEN Raise
    ELSE LET r == LibDecrypt(LibOf(algo), mode, key, data) IN
         IF ~r.ok THEN Raise
         ELSE IF ValidPadding(r.val, BlockSize(LibOf(algo)))
              THEN Ok(SubSeq(r.val, 1, Len(r.val) - r.val[Len(r.val)]))
              ELSE Ok(r.val)

\* Every string of length 1..max-keylen over the expanded charset.
KeyStrings == UNION {[1..n -> Range(charset)] : n \in 1..args.max_keylen}

\* The candidate byte strings of a token (the same under every iteration order).
CandidateBytes(token) ==
    LET vs == CHOOSE o \in Orders(Variants(token)) : TRUE
        cl == gen_decoded_candidates(token, vs)
    IN  {cl[i].bytes : i \in 1..Len(cl)}

\* C1. Search completeness: when the run has returned without the deadline
\* expiring and both cipher libraries are present, then for every token, every
\* decode candidate, every enabled cipher, both modes and every key string of
\* length 1..max-keylen over the charset, a non-empty printable plaintext
\* obtained by decrypting the candidate is the plaintext of some match.
SearchComplete ==
    (pc = "done" /\ ~expired /\ HAVE_CRYPTO /\ HAVE_TWOFISH) =>
        \A t \in 1..Len(cts) : \A c \in CandidateBytes(cts[t]) :
        \A a \in 1..Len(ciphers) : \A mode \in Range(Modes) : \A ks \in KeyStrings :
            LET key == EncodeLatin1(ks)
                r == RefDecrypt(c, ciphers[a], mode, key.val)
            IN  (key.ok /\ r.ok /\ r.val # <<>> /\ is_printable(r.val)) =>
                \E m \in 1..Len(matches) :
                    matches[m].ct = cts[t] /\ matches[m].plaintext = r.val

\* C2. Deadline enforcement: once a deadline check has seen the limit
\* exceeded, no further trial is made and no match is appended; and no step
\* ever removes or changes a match already collected.
DeadlineStops ==
    [][/\ observed => (trials' = trials /\ matches' = matches)
       /\ IsPrefix(matches, matches')]_vars

\* A run of two tokens that collected a match, saw the deadline during the
\* first token, made no trial on the second and returned the match.
DeadlineStopsWitness ==
    /\ pc = "done"
    /\ observed
    /\ Len(cts) = 2
    /\ matches # <<>>
    /\ \A i \in 1..Len(trials) : trials[i].ct = 1

\* C3. Normal termination: the run never ends in an error.
NeverAborts == pc # "aborted"

\* `if pt and is_printable(pt)` as the claim reads it, and as it is.
PrintableResult(res) == ~res.none /\ is_printable(res.bytes)

NonEmptyPrintableResult(res) == ~res.none /\ res.bytes # <<>> /\ is_printable(res.bytes)

\* C4 as claimed. A match is appended exactly for the trials whose result
\* passes is_printable, the zero-length result included.
MatchIffPrintable ==
    last.n > 0 =>
        IF PrintableResult(last.res)
        THEN last.after = last.before + 1
        ELSE last.after = last.before

\* C4 as amended. A match is appended, at once, exactly for the trials whose
\* result is non-empty and passes is_printable; its plaintext is that result.
MatchIffNonEmptyPrintable ==
    last.n > 0 =>
        /\ Len(matches) = last.after
        /\ IF NonEmptyPrintableResult(last.res)
           THEN /\ last.after = last.before + 1
                /\ matches[last.after].plaintext = last.res.bytes
           ELSE last.after = last.before

\* A trial with a non-empty printable result has just appended its match.
MatchWitness ==
    /\ last.n > 0
    /\ NonEmptyPrintableResult(last.res)
    /\ last.after = last.before + 1
    /\ Len(matches) = last.after

\* C5. The plaintext of a match is the raw decryption without its padding when
\* the raw decryption ends in valid PKCS#7 padding for the cipher's block size,
\* and the raw decryption itself otherwise, whichever libraries are present.
PlaintextIsUnpaddedOrRaw ==
    (last.n > 0 /\ last.after = last.before + 1) =>
        LET raw == RawDecrypt(last.bytes, last.algo, last.mode, last.key)
            bs == BlockSize(LibOf(last.algo))
        IN  /\ raw.kind = "pt"
            /\ matches[last.after].plaintext =
                 IF ValidPadding(raw.pt, bs)
                 THEN SubSeq(raw.pt, 1, Len(raw.pt) - raw.pt[Len(raw.pt)])
                 ELSE raw.pt

\* A match made by Twofish while the library that provides unpad is missing.
PlaintextWitness ==
    /\ ~HAVE_CRYPTO
    /\ HAVE_TWOFISH
    /\ last.n > 0
    /\ last.algo = "Twofish"
    /\ last.after = last.before + 1

\* A match whose raw decryption ended in valid padding, which was removed.
UnpaddedWitness ==
    /\ last.n > 0
    /\ last.after = last.before + 1
    /\ ValidPadding(RawDecrypt(last.bytes, last.algo, last.mode, last.key).pt,
                    BlockSize(LibOf(last.algo)))

\* C6. Round trip: with both libraries present, encrypting a padded plaintext
\* and attempting the result with the same cipher, mode and key returns the
\* plaintext.
RoundTripReturnsPlaintext ==
    (call.kind = "roundtrip" /\ HAVE_CRYPTO /\ HAVE_TWOFISH) =>
        call.result = Some(call.plaintext)

Unavailable(algo) ==
    IF algo = "Twofish" THEN ~HAVE_TWOFISH ELSE ~HAVE_CRYPTO

\* The trials the claim says must return nothing.
MustFail(bytes, algo, key) ==
    \/ algo \notin Supported
    \/ Unavailable(algo)
    \/ ~KeyValid(LibOf(algo), key)
    \/ Len(bytes) % BlockSize(LibOf(algo)) # 0

\* C7. try_decrypt_with_key returns bytes or nothing, and nothing when the key
\* length is invalid, the cipher unsupported, its library missing or the input
\* not a whole number of blocks; in main() such a trial appends no match.
FailedTrialReturnsNothing ==
    /\ call.kind = "attempt" =>
         /\ call.result.none \in BOOLEAN
         /\ call.result.none => call.result.bytes = <<>>
         /\ MustFail(call.cipher_bytes, call.algo, call.key) => call.result = None
    /\ last.n > 0 =>
         /\ MustFail(last.bytes, last.algo, last.key) => last.res = None
         /\ last.res = None => (last.after = last.before /\ Len(matches) = last.before)

\* A direct call with a valid key on bytes that are not a whole number of
\* blocks, which returned nothing.
FailedTrialWitness ==
    /\ call.kind = "attempt"
    /\ call.algo = "Twofish"
    /\ HAVE_TWOFISH
    /\ KeyValid("Twofish", call.key)
    /\ Len(call.cipher_bytes) % 16 # 0
    /\ call.result = None

\* A trial of main() that returned nothing for a key of invalid length.
FailedInMainWitness ==
    /\ last.n > 0
    /\ ~KeyValid(LibOf(last.algo), last.key)
    /\ last.res = None
    /\ matches # <<>>

\* Lexicographic order on tuples of numbers.
LexLess(a, b) ==
    \E i \in 1..Min(Len(a), Len(b)) :
        /\ a[i] < b[i]
        /\ \A j \in 1..(i - 1) : a[j] = b[j]

\* The place of a trial: token, candidate, wordlist before brute force, the
\* passphrase, the length, the tuple in product order, the key variant, the
\* cipher, ECB before CBC.
Place(e) ==
    <<e.ct, e.cand, IF e.src = "wordlist" THEN 1 ELSE 2, e.pp, e.L>> \o e.tup
        \o <<e.kv, e.ai, IF e.mode = "ECB" THEN 1 ELSE 2>>

\* C8. Trial ordering: each trial comes after the one before it in the order
\* token, candidate, wordlist keys before brute-force keys, shorter strings
\* before longer, product order within a length, key, cipher, ECB before CBC;
\* and a match is appended to the end of the collection by the trial it
\* comes from.
TrialOrder ==
    /\ Len(trials) >= 2 =>
         LexLess(Place(trials[Len(trials) - 1]), Place(trials[Len(trials)]))
    /\ (last.n > 0 /\ last.after > last.before) =>
         /\ last.after = Len(matches)
         /\ matches[Len(matches)].algo = last.algo
         /\ matches[Len(matches)].mode = last.mode
         /\ matches[Len(matches)].key = Hex(last.key)
         /\ matches[Len(matches)].plaintext = last.res.bytes

\* A finished search that tried wordlist keys and brute-force strings of two
\* lengths and collected matches.
TrialOrderWitness ==
    /\ pc = "done"
    /\ ~observed
    /\ Len(matches) >= 2
    /\ \E i, j, k \in 1..Len(trials) :
          /\ trials[i].src = "wordlist"
          /\ trials[j].src = "brute"
          /\ trials[k].src = "brute"
          /\ trials[j].L < trials[k].L

\* The keys the claim gives a passphrase of the wordlist, and a brute-force string.
ClaimedWordlistKeys(pp) ==
    IF args.try_derived_keys THEN derive_keys_from_passphrase(pp).val
    ELSE <<EncodeLatin1(pp).val>>

ClaimedBruteKeys(keystr) ==
    IF args.try_derived_keys
    THEN <<EncodeLatin1(keystr).val>> \o derive_keys_from_passphrase(keystr).val
    ELSE <<EncodeLatin1(keystr).val>>

ClaimedKeys(e) ==
    IF e.src = "wordlist" THEN ClaimedWordlistKeys(passphrases[e.pp])
    ELSE ClaimedBruteKeys(KeyStr(e.tup))

\* C9. Key sources: the key of a wordlist trial is the passphrase's raw bytes
\* without derived-key mode and one of its derived keys with it; the key of a
\* brute-force trial is the string's raw bytes, or with derived-key mode one of
\* its derived keys, after the raw bytes.  A search that ran to its end tried,
\* on every candidate it tried at all, every one of these keys.
KeySources ==
    /\ last.n > 0 =>
         LET e == trials[last.n] IN
         /\ e.kv <= Len(ClaimedKeys(e))
         /\ last.key = ClaimedKeys(e)[e.kv]
    /\ (pc = "done" /\ ~observed) =>
         \A i \in 1..Len(trials) :
            /\ \A p \in 1..Len(passphrases) :
               \A k \in 1..Len(ClaimedWordlistKeys(passphrases[p])) :
                  \E j \in 1..Len(trials) :
                      /\ trials[j].ct = trials[i].ct
                      /\ trials[j].cand = trials[i].cand
                      /\ trials[j].src = "wordlist"
                      /\ trials[j].pp = p
                      /\ trials[j].kv = k
            /\ \A k \in 1..Len(ClaimedKeys(trials[i])) :
                  \E j \in 1..Len(trials) :
                      /\ trials[j].ct = trials[i].ct
                      /\ trials[j].cand = trials[i].cand
                      /\ trials[j].src = trials[i].src
                      /\ trials[j].pp = trials[i].pp
                      /\ trials[j].tup = trials[i].tup
                      /\ trials[j].kv = k

\* A finished search in derived-key mode that tried a derived key of a
\* passphrase and a derived key of a brute-force string.
KeySourcesWitness ==
    /\ pc = "done"
    /\ ~observed
    /\ args.try_derived_keys
    /\ \E i, j \in 1..Len(trials) :
          /\ trials[i].src = "wordlist"
          /\ trials[j].src = "brute"
          /\ trials[j].kv > 1

\* C10. Bounded overshoot: the trials started after the limit is exceeded
\* number at most 2 x ciphers x key variants of one brute-force string (1, or
\* at most 7 in derived-key mode), and at most 2 when the limit is exceeded
\* during the wordlist phase.
OvershootBounded ==
    /\ overshoot <= 2 * Len(ciphers) * (IF args.try_derived_keys THEN 7 ELSE 1)
    /\ expiredIn = "wordlist" => overshoot <= 2

\* The bound is reached in derived-key mode: 2 x ciphers x 7 key variants.
OvershootWitness ==
    /\ args.try_derived_keys
    /\ expiredIn = "brute"
    /\ overshoot = 2 * Len(ciphers) * 7

\* Two trials after the limit was exceeded in the wordlist phase.
WordlistOvershootWitness ==
    /\ expiredIn = "wordlist"
    /\ overshoot = 2
    /\ pc = "done"

====
